---- MODULE Spec2Model ----
(***************************************************************************)
(* Corpus splitting with triphone coverage (data/_prototype/split.py).     *)
(*                                                                         *)
(* split_corpus_prototype validates its arguments, seeds the process-wide  *)
(* random generator, builds the triphone index of the corpus, builds an    *)
(* initial three-way split by a randomised greedy pass (restarted when the *)
(* three filesets do not cover the same triphones), moves utterances       *)
(* between the filesets until they have their target sizes, and writes the *)
(* three lists to train/validation/test files.                             *)
(*                                                                         *)
(* The numpy generator is modelled by its observable contract: the value  *)
(* returned by a call is a function of the generator's state (the seed    *)
(* last applied and the number of calls since), and any value of the       *)
(* call's range can come out.  The values are fixed lazily on `tape`, so   *)
(* that a second pass through the same generator state sees the same       *)
(* value.  pct_train is a decimal fraction num/den; the product            *)
(* total * pct_train is exact.                                             *)
(***************************************************************************)
EXTENDS Integers, Sequences, FiniteSets, TLC

VARIABLES
    pc,            \* position in the code
    corpus,        \* what get_utterances_list / load_phone_labels supply
    pct_train,     \* argument: [num, den], the fraction num/den
    limit,         \* argument
    lowest_limit,  \* argument
    seed,          \* argument
    recursion_limit, \* calls of build_initial_split the interpreter's stack admits
    rng,           \* state of the process-wide generator: [stream, pos]
    tape,          \* values the generator yields, per stream, by position
    error,         \* exception that ended the invocation, or "none"
    warned,        \* the low-`limit` warning was printed
    indexer,       \* dict utterance -> qualifying triphones
    keys,          \* list(indexer.keys()), in insertion order
    order,         \* build_initial_split: the permutation being iterated
    pos,           \* build_initial_split: number of utterances assigned
    filesets_bis,  \* build_initial_split: its local list of three dicts
    diag,          \* number of restart diagnostics printed
    filesets,      \* the list of three utterance lists (mutated in place)
    n_obs,         \* adjust_filesets: the target sizes
    taken_out,     \* adjust_filesets: the shared pool
    k,             \* adjust_filesets: index of the fileset in the for loop
    n_moves,       \* adjust_filesets: removals wanted from fileset k
    moved,         \* adjust_filesets: removals done from fileset k
    todo,          \* adjust_filesets: iterations left of range(size - len)
    draws,         \* number of np.random.choice calls of the removal phase
    files,         \* the output folder: file name -> content, or absent
    written,       \* names of the files written by this invocation, in order
    hist,          \* this invocation's random outcomes, in order
    run,           \* number of the invocation in this process
    first          \* what the first invocation did: [hist, files]

vars == << pc, corpus, pct_train, limit, lowest_limit, seed, recursion_limit,
           rng, tape, error,
           warned, indexer, keys, order, pos, filesets_bis, diag, filesets,
           n_obs, taken_out, k, n_moves, moved, todo, draws, files, written,
           hist, run, first >>

(***************************************************************************)
(* Bounds of the model.                                                    *)
(***************************************************************************)
MaxAttempts == 2   \* passes of build_initial_split explored per invocation
MaxDraws == 4      \* np.random.choice calls explored in the removal phase

(***************************************************************************)
(* Sequences and lists.                                                    *)
(***************************************************************************)
Range(s) == { s[j] : j \in DOMAIN s }

Min(a, b) == IF a < b THEN a ELSE b

\* s[a:b] of Python, 0-based, clipped to the list
Slice(s, a, b) == SubSeq(s, a + 1, Min(b, Len(s)))

RemoveAt(s, j) == SubSeq(s, 1, j - 1) \o SubSeq(s, j + 1, Len(s))

\* list.remove(x): drops the first element equal to x
Remove(s, x) ==
    LET j == CHOOSE j \in DOMAIN s : s[j] = x /\ \A h \in 1..(j - 1) : s[h] # x
    IN  RemoveAt(s, j)

RECURSIVE Join(_, _)
\* sep.join(strs)
Join(sep, strs) ==
    IF Len(strs) = 0 THEN ""
    ELSE IF Len(strs) = 1 THEN strs[1]
    ELSE strs[1] \o sep \o Join(sep, Tail(strs))

RECURSIVE Fact(_)
Fact(n) == IF n <= 1 THEN 1 ELSE n * Fact(n - 1)

RECURSIVE Sum(_)
\* sum(list of integers)
Sum(s) == IF Len(s) = 0 THEN 0 ELSE s[1] + Sum(Tail(s))

(***************************************************************************)
(* The random generator.                                                   *)
(***************************************************************************)
Seeds == {7}

\* the generator as the process finds it, before any call of np.random.seed
Unseeded == [seeded |-> FALSE, seed |-> 0]

Streams == {Unseeded} \cup { [seeded |-> TRUE, seed |-> s] : s \in Seeds }

\* variant: the call of np.random.seed is left out
Seeded_left_out(s) == rng

\* np.random.seed(s)
Seeded(s) == [stream |-> [seeded |-> TRUE, seed |-> s], pos |-> 0]

\* the values a call with m possible outcomes can return in the state rng
Outcomes(m) ==
    IF rng.pos < Len(tape[rng.stream])
    THEN { tape[rng.stream][rng.pos + 1] % m }
    ELSE 0..(m - 1)

\* the generator after a call that returned v
Advance(v) ==
    /\ rng' = [rng EXCEPT !.pos = @ + 1]
    /\ tape' = IF rng.pos < Len(tape[rng.stream])
               THEN tape
               ELSE [tape EXCEPT ![rng.stream] = Append(@, v)]

RECURSIVE Permutation(_, _)
\* np.random.permutation(s), for the outcome v in 0..(Len(s)! - 1)
Permutation(s, v) ==
    IF Len(s) = 0 THEN << >>
    ELSE LET j == (v % Len(s)) + 1
         IN  << s[j] >> \o Permutation(RemoveAt(s, j), v \div Len(s))

\* np.random.choice(s), for the outcome v in 0..(Len(s) - 1)
Choice(s, v) == s[v + 1]

(***************************************************************************)
(* The corpora: get_utterances_list() and load_phone_labels(name).         *)
(***************************************************************************)
\* a phone-label sequence (end_time, symbol) from its symbols
Labels(syms) == [ j \in 1..Len(syms) |-> << j, syms[j] >> ]

UttNames == << "u1", "u2", "u3", "u4", "u5", "u6", "u7", "u8", "u9", "u10" >>

\* a corpus from the symbol sequences of its utterances
Corpus(seqs) ==
    [ j \in 1..Len(seqs) |-> [name |-> UttNames[j], labels |-> Labels(seqs[j])] ]

get_utterances_list(corp) == [ j \in 1..Len(corp) |-> corp[j].name ]

load_phone_labels(corp, name) ==
    LET j == CHOOSE j \in 1..Len(corp) : corp[j].name = name IN corp[j].labels

AB    == << "a", "b" >>
ABC   == << "a", "b", "c" >>
ABCA  == << "a", "b", "c", "a" >>
BCAB  == << "b", "c", "a", "b" >>
CABC  == << "c", "a", "b", "c" >>
ABCAB == << "a", "b", "c", "a", "b" >>
XYZ   == << "x", "y", "z" >>

Corpora ==
    { Corpus(<< AB, AB, AB >>),
      Corpus(<< ABC, ABCA, XYZ >>),
      Corpus(<< ABC, ABC, ABC >>),
      Corpus(<< ABC, ABC, ABC, ABC >>),
      Corpus(<< ABC, AB, ABC, AB, ABC >>),
      Corpus(<< ABCA, BCAB, ABCAB, ABCAB >>),
      Corpus(<< ABCA, BCAB, CABC, ABCAB >>) }

(***************************************************************************)
(* build_triphones_indexer                                                 *)
(***************************************************************************)
\* variant: i in range(len(labels) - 1)
Windows_one_more(labels) == 0..(Len(labels) - 2)

\* the windows of load_triphones: i in range(len(labels) - 2)
Windows(labels) == 0..(Len(labels) - 3)

load_triphones(labels) ==
    { Join("_", [ j \in 1..Len(Slice(labels, w, w + 3)) |->
                    Slice(labels, w, w + 3)[j][2] ]) : w \in Windows(labels) }

\* the dict `utterances`: name -> set of triphones
utterances(corp) ==
    [ name \in Range(get_utterances_list(corp)) |->
        load_triphones(load_phone_labels(corp, name)) ]

all_triphones(corp) == UNION { utterances(corp)[n] : n \in DOMAIN utterances(corp) }

\* sum(triphone in utt for utt in utterances.values())
Occurrences(corp, t) ==
    Cardinality({ n \in DOMAIN utterances(corp) : t \in utterances(corp)[n] })

\* variant: more than `limit` utterances are asked for
triphones_strict(lim, corp) ==
    { t \in all_triphones(corp) : Occurrences(corp, t) > lim }

\* the triphones of interest
triphones(lim, corp) ==
    { t \in all_triphones(corp) : Occurrences(corp, t) >= lim }

build_triphones_indexer(lim, corp) ==
    [ name \in DOMAIN utterances(corp) |->
        { phone \in utterances(corp)[name] : phone \in triphones(lim, corp) } ]

(***************************************************************************)
(* build_initial_split                                                     *)
(***************************************************************************)
\* [{'utt': [], 'phones': set()} for _ in range(3)]
EmptyFilesets == [ f \in 1..3 |-> [utt |-> << >>, phones |-> {}] ]

\* the gains of the three filesets from incorporating the utterance
gains(idx, fsets, utterance) ==
    [ f \in 1..3 |->
        Cardinality({ phone \in idx[utterance] : phone \notin fsets[f].phones }) ]

\* variant: the last index holding the maximum
argmax_last(g) ==
    CHOOSE c \in DOMAIN g :
        /\ \A d \in DOMAIN g : g[d] <= g[c]
        /\ \A d \in DOMAIN g : d > c => g[d] < g[c]

\* np.argmax: the first index holding the maximum
argmax(g) ==
    CHOOSE c \in DOMAIN g :
        /\ \A d \in DOMAIN g : g[d] <= g[c]
        /\ \A d \in DOMAIN g : d < c => g[d] < g[c]

\* the body of the for loop: the filesets after assigning the utterance
assign(idx, fsets, utterance) ==
    LET chosen == argmax(gains(idx, fsets, utterance))
    IN  [ fsets EXCEPT ![chosen] =
            [utt |-> Append(@.utt, utterance),
             phones |-> @.phones \cup idx[utterance]] ]

\* variant: the third fileset is not compared
all_covered_first_two(fsets) == fsets[1].phones = fsets[2].phones

all_covered(fsets) ==
    fsets[1].phones = fsets[2].phones /\ fsets[2].phones = fsets[3].phones

(***************************************************************************)
(* adjust_filesets                                                         *)
(***************************************************************************)
\* variant: np.floor in place of np.ceil
Ceil_floor(total, pct) == (total * pct.num) \div pct.den

\* int(np.ceil(total * pct)), pct = num/den
Ceil(total, pct) == (total * pct.num + pct.den - 1) \div pct.den

\* variant: n_obs[2] = total - n_obs[0]
sizes_rest_of_train(total, pct) ==
    LET n0 == (total * pct.num + pct.den - 1) \div pct.den
        n1 == (total - n0) \div 2
        n2 == total - n0
    IN  << n0, n1, n2 >>

\* the theoretical sizes of the filesets
sizes(total, pct) ==
    LET n0 == Ceil(total, pct)
        n1 == (total - n0) \div 2
        n2 == total - Sum(<< n0, n1, 0 >>)
    IN  << n0, n1, n2 >>

\* variant: the carriers are counted over the whole index
carriers_of_index(idx, fileset, phone) ==
    Cardinality({ n \in DOMAIN idx : phone \in idx[n] })

\* sum(phone in indexer[utt] for utt in fileset)
carriers(idx, fileset, phone) ==
    Cardinality({ j \in DOMAIN fileset : phone \in idx[fileset[j]] })

\* variant: > 0 in place of > 1
movable_any_carrier(idx, fileset, chosen) ==
    \A phone \in idx[chosen] :
        Cardinality({ j \in DOMAIN fileset : phone \in idx[fileset[j]] }) > 0

movable(idx, fileset, chosen) ==
    \A phone \in idx[chosen] : carriers(idx, fileset, phone) > 1

(***************************************************************************)
(* store_filesets                                                          *)
(***************************************************************************)
\* the keys of filesets_dict, in order
SetNames == << "train", "validation", "test" >>

Path(set_name) == set_name \o ".txt"

\* file.write('\n'.join(fileset)) on a file opened with 'w'
Write(fs, path, fileset) ==
    [ p \in DOMAIN fs \cup {path} |->
        IF p = path THEN Join("\n", fileset) ELSE fs[p] ]

(***************************************************************************)
(* split_corpus_prototype                                                  *)
(***************************************************************************)
Frac(n, d) == [num |-> n, den |-> d]

\* not 0 < pct_train < 1
InvalidPct(pct) == ~(0 < pct.num /\ pct.num < pct.den)

\* variant: the minimum is taken to be 2
InvalidLimit_below_two(lim) == lim < 2

InvalidLimit(lim) == lim < 3

Pcts == { Frac(0, 10), Frac(2, 10), Frac(4, 10), Frac(7, 10), Frac(10, 10) }
Limits == {2, 3}
LowestLimits == {3, 4}

NoFiles == [ p \in {} |-> "" ]
NoIndex == [ n \in {} |-> {} ]
NoTape == [ s \in Streams |-> << >> ]

\* a stack that admits more nested calls of build_initial_split than the
\* passes explored
DeepStack == MaxAttempts + 1

\* the locals of build_initial_split, of adjust_filesets and of the invocation
\* before they are set
Fresh ==
    /\ error = "none"
    /\ warned = FALSE
    /\ order = << >>
    /\ pos = 0
    /\ filesets_bis = EmptyFilesets
    /\ diag = 0
    /\ n_obs = << 0, 0, 0 >>
    /\ taken_out = << >>
    /\ k = 0
    /\ n_moves = 0
    /\ moved = << >>
    /\ todo = 0
    /\ draws = 0
    /\ written = << >>
    /\ hist = << >>
    /\ rng = [stream |-> Unseeded, pos |-> 0]
    /\ tape = NoTape
    /\ files = NoFiles
    /\ run = 1
    /\ first = [hist |-> << >>, filesets |-> << >>, files |-> NoFiles]

\* split_corpus_prototype is called
Init ==
    /\ Fresh
    /\ pc = "init"
    /\ corpus \in Corpora
    /\ pct_train \in Pcts
    /\ limit \in Limits
    /\ lowest_limit \in LowestLimits
    /\ seed \in Seeds
    /\ recursion_limit = DeepStack
    /\ indexer = NoIndex
    /\ keys = << >>
    /\ filesets = << << >>, << >>, << >> >>

inputs == << corpus, pct_train, limit, lowest_limit, seed, recursion_limit >>
split_locals == << order, pos, filesets_bis, diag >>
adjust_locals == << n_obs, taken_out, k, n_moves, moved, todo, draws >>
process == << files, run, first >>

\* lines 200-210: the checks of the arguments, then np.random.seed(seed)
Validate ==
    /\ pc = "init"
    /\ IF InvalidPct(pct_train)
       THEN /\ error' = "ValueError: Invalid pct_train value"
            /\ pc' = "failed"
            /\ UNCHANGED << warned, rng >>
       ELSE IF InvalidLimit(limit)
       THEN /\ error' = "ValueError: Minimum limit value is 3."
            /\ pc' = "failed"
            /\ UNCHANGED << warned, rng >>
       ELSE /\ warned' = (limit < lowest_limit)
            /\ rng' = Seeded(seed)
            /\ pc' = "indexing"
            /\ UNCHANGED error
    /\ UNCHANGED << inputs, tape, indexer, keys, split_locals, filesets,
                    adjust_locals, written, hist, process >>

\* line 211
BuildIndex ==
    /\ pc = "indexing"
    /\ indexer' = build_triphones_indexer(limit, corpus)
    /\ keys' = get_utterances_list(corpus)
    /\ pc' = "split_permute"
    /\ UNCHANGED << inputs, rng, tape, error, warned, split_locals, filesets,
                    adjust_locals, written, hist, process >>

\* variant: the filesets of the previous call are kept
StartPass_keep ==
    /\ pc = "split_permute"
    /\ diag < MaxAttempts
    /\ \E v \in Outcomes(Fact(Len(keys))) :
         /\ order' = Permutation(keys, v)
         /\ Advance(v)
    /\ pos' = 0
    /\ hist' = Append(hist, << "permutation", order' >>)
    /\ pc' = "split_assign"
    /\ UNCHANGED << inputs, error, warned, indexer, keys, diag, filesets,
                    filesets_bis, adjust_locals, written, process >>

\* lines 66-68: a call of build_initial_split draws its visiting order
StartPass ==
    /\ pc = "split_permute"
    /\ diag < MaxAttempts
    /\ \E v \in Outcomes(Fact(Len(keys))) :
         /\ order' = Permutation(keys, v)
         /\ Advance(v)
    /\ filesets_bis' = EmptyFilesets
    /\ pos' = 0
    /\ hist' = Append(hist, << "permutation", order' >>)
    /\ pc' = "split_assign"
    /\ UNCHANGED << inputs, error, warned, indexer, keys, diag, filesets,
                    adjust_locals, written, process >>

\* lines 68-80: one iteration of the for loop
Assign ==
    /\ pc = "split_assign"
    /\ pos < Len(order)
    /\ filesets_bis' = assign(indexer, filesets_bis, order[pos + 1])
    /\ pos' = pos + 1
    /\ UNCHANGED << pc, inputs, rng, tape, error, warned, indexer, keys, order,
                    diag, filesets, adjust_locals, written, hist, process >>

\* variant: the pass is restarted in a loop, without a nested call
Restart_in_loop ==
    /\ pc = "split_assign"
    /\ pos = Len(order)
    /\ ~all_covered(filesets_bis)
    /\ diag' = diag + 1
    /\ pc' = "split_permute"
    /\ UNCHANGED << inputs, rng, tape, error, warned, indexer, keys, order, pos,
                    filesets_bis, filesets, adjust_locals, written, hist,
                    process >>

\* lines 82-90: the coverage check fails; diagnostic and recursive call.  The
\* call is one more frame of build_initial_split on the interpreter's stack:
\* when the stack admits no more, the interpreter raises RecursionError (in
\* the call or in the first comprehension of the new pass), which nothing
\* catches.
Restart ==
    /\ pc = "split_assign"
    /\ pos = Len(order)
    /\ ~all_covered(filesets_bis)
    /\ diag' = diag + 1
    /\ IF diag + 1 < recursion_limit
       THEN /\ pc' = "split_permute"
            /\ UNCHANGED error
       ELSE /\ pc' = "failed"
            /\ error' = "RecursionError: maximum recursion depth exceeded"
    /\ UNCHANGED << inputs, rng, tape, warned, indexer, keys, order, pos,
                    filesets_bis, filesets, adjust_locals, written, hist,
                    process >>

\* lines 82-92 and 212: the coverage check passes; the lists are returned
Return ==
    /\ pc = "split_assign"
    /\ pos = Len(order)
    /\ all_covered(filesets_bis)
    /\ filesets' = [ f \in 1..3 |-> filesets_bis[f].utt ]
    /\ pc' = "adjust_sizes"
    /\ UNCHANGED << inputs, rng, tape, error, warned, indexer, keys,
                    split_locals, adjust_locals, written, hist, process >>

\* lines 113-119 and 213: the target sizes and the empty pool
AdjustSizes ==
    /\ pc = "adjust_sizes"
    /\ n_obs' = sizes(Sum([ f \in 1..3 |-> Len(filesets[f]) ]), pct_train)
    /\ taken_out' = << >>
    /\ k' = 1
    /\ pc' = "remove"
    /\ UNCHANGED << inputs, rng, tape, error, warned, indexer, keys,
                    split_locals, filesets, n_moves, moved, todo, draws,
                    written, hist, process >>

\* lines 122-125: a fileset larger than its target enters the while loop
RemoveEnter ==
    /\ pc = "remove"
    /\ k <= 3
    /\ Len(filesets[k]) > n_obs[k]
    /\ n_moves' = Len(filesets[k]) - n_obs[k]
    /\ moved' = << >>
    /\ pc' = "remove_draw"
    /\ UNCHANGED << inputs, rng, tape, error, warned, indexer, keys,
                    split_locals, filesets, n_obs, taken_out, k, todo, draws,
                    written, hist, process >>

\* lines 122-123: a fileset no larger than its target is left alone
RemoveSkip ==
    /\ pc = "remove"
    /\ k <= 3
    /\ ~(Len(filesets[k]) > n_obs[k])
    /\ k' = k + 1
    /\ UNCHANGED << pc, inputs, rng, tape, error, warned, indexer, keys,
                    split_locals, filesets, n_obs, taken_out, n_moves, moved,
                    todo, draws, written, hist, process >>

\* lines 126-134: one iteration of the while loop
RemoveDraw ==
    /\ pc = "remove_draw"
    /\ Len(moved) < n_moves
    /\ draws < MaxDraws
    /\ IF Len(filesets[k]) = 0
       THEN /\ error' = "ValueError: a must be non-empty"
            /\ pc' = "failed"
            /\ UNCHANGED << rng, tape, filesets, moved, draws, hist >>
       ELSE /\ \E v \in Outcomes(Len(filesets[k])) :
                 LET chosen == Choice(filesets[k], v)
                     is_movable == movable(indexer, filesets[k], chosen)
                 IN  /\ Advance(v)
                     /\ moved' = IF is_movable THEN Append(moved, chosen)
                                 ELSE moved
                     /\ filesets' = IF is_movable
                                    THEN [filesets EXCEPT ![k] = Remove(@, chosen)]
                                    ELSE filesets
                     /\ hist' = Append(hist, << "remove", k, chosen, is_movable >>)
            /\ draws' = draws + 1
            /\ UNCHANGED << pc, error >>
    /\ UNCHANGED << inputs, warned, indexer, keys, split_locals, n_obs,
                    taken_out, k, n_moves, todo, written, process >>

\* lines 126 and 135: the while loop ends; the pool takes what was moved
RemoveExit ==
    /\ pc = "remove_draw"
    /\ ~(Len(moved) < n_moves)
    /\ taken_out' = taken_out \o moved
    /\ k' = k + 1
    /\ pc' = "remove"
    /\ UNCHANGED << inputs, rng, tape, error, warned, indexer, keys,
                    split_locals, filesets, n_obs, n_moves, moved, todo, draws,
                    written, hist, process >>

\* line 122: the first for loop is exhausted
RemoveEnd ==
    /\ pc = "remove"
    /\ k > 3
    /\ k' = 1
    /\ pc' = "fill"
    /\ UNCHANGED << inputs, rng, tape, error, warned, indexer, keys,
                    split_locals, filesets, n_obs, taken_out, n_moves, moved,
                    todo, draws, written, hist, process >>

\* lines 137-138: range(size - len(fileset)) is evaluated for fileset k
FillEnter ==
    /\ pc = "fill"
    /\ k <= 3
    /\ todo' = IF n_obs[k] - Len(filesets[k]) > 0
               THEN n_obs[k] - Len(filesets[k]) ELSE 0
    /\ pc' = "fill_draw"
    /\ UNCHANGED << inputs, rng, tape, error, warned, indexer, keys,
                    split_locals, filesets, n_obs, taken_out, k, n_moves,
                    moved, draws, written, hist, process >>

\* lines 139-141: one iteration of the inner for loop
FillDraw ==
    /\ pc = "fill_draw"
    /\ todo > 0
    /\ IF Len(taken_out) = 0
       THEN /\ error' = "ValueError: a must be non-empty"
            /\ pc' = "failed"
            /\ UNCHANGED << rng, tape, filesets, taken_out, todo, hist >>
       ELSE /\ \E v \in Outcomes(Len(taken_out)) :
                 LET chosen == Choice(taken_out, v)
                 IN  /\ Advance(v)
                     /\ filesets' = [filesets EXCEPT ![k] = Append(@, chosen)]
                     /\ taken_out' = Remove(taken_out, chosen)
                     /\ hist' = Append(hist, << "fill", k, chosen >>)
            /\ todo' = todo - 1
            /\ UNCHANGED << pc, error >>
    /\ UNCHANGED << inputs, warned, indexer, keys, split_locals, n_obs, k,
                    n_moves, moved, draws, written, process >>

\* line 138: the inner for loop is exhausted
FillExit ==
    /\ pc = "fill_draw"
    /\ todo = 0
    /\ k' = k + 1
    /\ pc' = "fill"
    /\ UNCHANGED << inputs, rng, tape, error, warned, indexer, keys,
                    split_locals, filesets, n_obs, taken_out, n_moves, moved,
                    todo, draws, written, hist, process >>

\* lines 137 and 143: adjust_filesets returns its filesets
AdjustReturn ==
    /\ pc = "fill"
    /\ k > 3
    /\ pc' = "store"
    /\ UNCHANGED << inputs, rng, tape, error, warned, indexer, keys,
                    split_locals, filesets, adjust_locals, written, hist,
                    process >>

\* variant: the lists are written as build_initial_split returned them
StoreFile_initial_split ==
    /\ pc = "store"
    /\ Len(written) < Len(SetNames)
    /\ LET n == Len(written) + 1
       IN  /\ files' = Write(files, Path(SetNames[n]), filesets_bis[n].utt)
           /\ written' = Append(written, Path(SetNames[n]))
    /\ UNCHANGED << pc, inputs, rng, tape, error, warned, indexer, keys,
                    split_locals, filesets, adjust_locals, hist, run, first >>

\* lines 215-216 and 160-163: the next fileset is written to its file
StoreFile ==
    /\ pc = "store"
    /\ Len(written) < Len(SetNames)
    /\ LET n == Len(written) + 1
       IN  /\ files' = Write(files, Path(SetNames[n]), filesets[n])
           /\ written' = Append(written, Path(SetNames[n]))
    /\ UNCHANGED << pc, inputs, rng, tape, error, warned, indexer, keys,
                    split_locals, filesets, adjust_locals, hist, run, first >>

\* line 216: store_filesets and split_corpus_prototype return
Finish ==
    /\ pc = "store"
    /\ Len(written) = Len(SetNames)
    /\ pc' = "done"
    /\ UNCHANGED << inputs, rng, tape, error, warned, indexer, keys,
                    split_locals, filesets, adjust_locals, written, hist,
                    process >>

\* the same process calls split_corpus_prototype again, same arguments
Reinvoke ==
    /\ pc = "done"
    /\ run = 1
    /\ run' = 2
    /\ first' = [hist |-> hist, filesets |-> filesets, files |-> files]
    /\ pc' = "init"
    /\ error' = "none"
    /\ warned' = FALSE
    /\ indexer' = NoIndex
    /\ keys' = << >>
    /\ order' = << >>
    /\ pos' = 0
    /\ filesets_bis' = EmptyFilesets
    /\ diag' = 0
    /\ filesets' = << << >>, << >>, << >> >>
    /\ n_obs' = << 0, 0, 0 >>
    /\ taken_out' = << >>
    /\ k' = 0
    /\ n_moves' = 0
    /\ moved' = << >>
    /\ todo' = 0
    /\ draws' = 0
    /\ written' = << >>
    /\ hist' = << >>
    /\ UNCHANGED << inputs, rng, tape, files >>

Next ==
    \/ Validate
    \/ BuildIndex
    \/ StartPass
    \/ Assign
    \/ Restart
    \/ Return
    \/ AdjustSizes
    \/ RemoveEnter
    \/ RemoveSkip
    \/ RemoveDraw
    \/ RemoveExit
    \/ RemoveEnd
    \/ FillEnter
    \/ FillDraw
    \/ FillExit
    \/ AdjustReturn
    \/ StoreFile
    \/ Finish
    \/ Reinvoke

Spec == Init /\ [][Next]_vars

(***************************************************************************)
(* build_triphones_indexer on its own: any limit, every corpus of three    *)
(* utterances over the symbol sequences above.                             *)
(***************************************************************************)
SymbolSeqs == { AB, ABC, ABCA, BCAB, ABCAB, XYZ }

IndexCorpora == { Corpus(<< a, b, c >>) : a, b, c \in SymbolSeqs }

IndexLimits == {1, 2, 3}

InitIndex ==
    /\ Fresh
    /\ pc = "indexing"
    /\ corpus \in IndexCorpora
    /\ limit \in IndexLimits
    /\ pct_train = Frac(7, 10)
    /\ lowest_limit = limit
    /\ seed \in Seeds
    /\ recursion_limit = DeepStack
    /\ indexer = NoIndex
    /\ keys = << >>
    /\ filesets = << << >>, << >>, << >> >>

NextIndex == BuildIndex

IndexSpec == InitIndex /\ [][NextIndex]_vars

(***************************************************************************)
(* build_initial_split on its own: the indexes of four utterances over two *)
(* triphones, one for each multiset of triphone sets (the passes visit the *)
(* utterances in every order), and two indexes over three triphones.       *)
(***************************************************************************)
SplitKeys == << "u1", "u2", "u3", "u4" >>

TA == "a_b_c"
TB == "b_c_a"
TC == "c_a_b"

Rank(set) == (IF TA \in set THEN 1 ELSE 0) + (IF TB \in set THEN 2 ELSE 0)

SplitIndexes ==
    { idx \in [ Range(SplitKeys) -> SUBSET {TA, TB} ] :
        \A j \in 1..(Len(SplitKeys) - 1) :
            Rank(idx[SplitKeys[j]]) <= Rank(idx[SplitKeys[j + 1]]) }
      \cup { ("u1" :> {TA, TB}) @@ ("u2" :> {TB, TC})
               @@ ("u3" :> {TA, TB, TC}) @@ ("u4" :> {TA, TB, TC}),
             ("u1" :> {TA, TB}) @@ ("u2" :> {TB, TC})
               @@ ("u3" :> {TC, TA}) @@ ("u4" :> {TA, TB, TC}) }

InitSplit ==
    /\ Fresh
    /\ pc = "split_permute"
    /\ corpus = << >>
    /\ limit \in {3}
    /\ pct_train = Frac(7, 10)
    /\ lowest_limit = limit
    /\ seed \in Seeds
    /\ recursion_limit = DeepStack
    /\ indexer \in SplitIndexes
    /\ keys = SplitKeys
    /\ filesets = << << >>, << >>, << >> >>

NextSplit ==
    \/ StartPass
    \/ Assign
    \/ Restart
    \/ Return

SplitSpec == InitSplit /\ [][NextSplit]_vars

(***************************************************************************)
(* build_initial_split on a stack that admits few nested calls.            *)
(***************************************************************************)
InitRecursion ==
    /\ Fresh
    /\ pc = "split_permute"
    /\ corpus = << >>
    /\ limit \in {3}
    /\ pct_train = Frac(7, 10)
    /\ lowest_limit = limit
    /\ seed \in Seeds
    /\ recursion_limit \in 1..MaxAttempts
    /\ indexer \in SplitIndexes
    /\ keys = SplitKeys
    /\ filesets = << << >>, << >>, << >> >>

NextRecursion ==
    \/ StartPass
    \/ Assign
    \/ Restart
    \/ Return

RecursionSpec == InitRecursion /\ [][NextRecursion]_vars

(***************************************************************************)
(* adjust_filesets on its own: every three-way partition of the utterances *)
(* of an index in which each fileset covers every triphone of the index.   *)
(***************************************************************************)
\* the utterances of names, each carrying the triphones carry gives it
IndexOf(names, carry) ==
    [ n \in Range(names) |-> IF n \in DOMAIN carry THEN carry[n] ELSE {} ]

\* the three lists of a partition of names
ListsOf(names, part) ==
    [ f \in 1..3 |-> SelectSeq(names, LAMBDA n : part[n] = f) ]

coverage(idx, fileset) == UNION { idx[fileset[j]] : j \in DOMAIN fileset }

full(idx) == UNION { idx[n] : n \in DOMAIN idx }

CasesOf(names, carry) ==
    { [indexer |-> IndexOf(names, carry), keys |-> names,
       filesets |-> ListsOf(names, part)] :
        part \in { q \in [ Range(names) -> 1..3 ] :
                     \A f \in 1..3 :
                        coverage(IndexOf(names, carry), ListsOf(names, q)[f])
                          = full(IndexOf(names, carry)) } }

T1 == {TA}
T12 == {TA, TB}

AdjustCases ==
    CasesOf(SubSeq(UttNames, 1, 4), << >>)
      \cup CasesOf(SubSeq(UttNames, 1, 4),
                   ("u1" :> T1) @@ ("u2" :> T1) @@ ("u3" :> T1) @@ ("u4" :> T1))
      \cup CasesOf(SubSeq(UttNames, 1, 5),
                   ("u1" :> T12) @@ ("u2" :> T1) @@ ("u3" :> T12) @@ ("u4" :> T12))
      \cup { [indexer |-> IndexOf(UttNames, ("u1" :> T1) @@ ("u9" :> T1) @@ ("u10" :> T1)),
              keys |-> UttNames,
              filesets |-> << SubSeq(UttNames, 1, 8), << "u9" >>, << "u10" >> >>] }

InitAdjust ==
    /\ Fresh
    /\ pc = "adjust_sizes"
    /\ corpus = << >>
    /\ limit \in {3}
    /\ pct_train \in { p \in Pcts : ~InvalidPct(p) }
    /\ lowest_limit = limit
    /\ seed \in Seeds
    /\ recursion_limit = DeepStack
    /\ \E c \in AdjustCases :
         /\ indexer = c.indexer
         /\ keys = c.keys
         /\ filesets = c.filesets

NextAdjust ==
    \/ AdjustSizes
    \/ RemoveEnter
    \/ RemoveSkip
    \/ RemoveDraw
    \/ RemoveExit
    \/ RemoveEnd
    \/ FillEnter
    \/ FillDraw
    \/ FillExit
    \/ AdjustReturn

AdjustSpec == InitAdjust /\ [][NextAdjust]_vars

(***************************************************************************)
(* Properties.                                                             *)
(***************************************************************************)
\* the triphones carried by the utterances of the returned list f
Covered(f) == UNION { indexer[filesets[f][j]] : j \in DOMAIN filesets[f] }

\* the triphones appearing in the index
IndexTriphones == UNION { indexer[n] : n \in DOMAIN indexer }

\* number of places of the list holding u
Count(list, u) == Cardinality({ j \in DOMAIN list : list[j] = u })

\* C1: when build_initial_split has returned, the three returned filesets
\* cover pairwise the same triphones, and each covers every triphone that
\* appears in the index.
C1_ReturnedSplitCoversIndex ==
    pc = "adjust_sizes" =>
        /\ \A f, g \in 1..3 : Covered(f) = Covered(g)
        /\ \A f \in 1..3 : Covered(f) = IndexTriphones

\* build_initial_split has returned three non-empty filesets for an index of
\* two triphones
C1_Witness ==
    /\ pc = "adjust_sizes"
    /\ Cardinality(IndexTriphones) = 2
    /\ \A f \in 1..3 : Len(filesets[f]) > 0

\* C2: in every state of adjust_filesets, every triphone of the index is
\* carried by at least one utterance of each of the three filesets.
C2_CoverageKept ==
    \A f \in 1..3 : \A t \in IndexTriphones :
        \E j \in DOMAIN filesets[f] : t \in indexer[filesets[f][j]]

\* adjust_filesets returns after refusing to move a sole carrier and moving
\* a carrier that was not the only one
C2_Witness ==
    /\ pc = "store"
    /\ \E a, b \in DOMAIN hist :
         /\ hist[a][1] = "remove" /\ ~hist[a][4] /\ indexer[hist[a][3]] # {}
         /\ hist[b][1] = "remove" /\ hist[b][4] /\ indexer[hist[b][3]] # {}

\* the utterances adjust_filesets holds: in the filesets, in the pool, and,
\* inside a while loop, in its list `moved`
Held(u) ==
    Count(filesets[1], u) + Count(filesets[2], u) + Count(filesets[3], u)
      + Count(taken_out, u)
      + (IF pc = "remove_draw" THEN Count(moved, u) ELSE 0)

\* C3: adjust_filesets keeps every utterance exactly once among its filesets,
\* its pool and the removals under way; it never draws from an empty pool;
\* when it returns the pool is empty, every utterance is in exactly one
\* fileset, and the three sizes add up to the number of utterances.
C3_UtterancesConserved ==
    /\ pc # "failed"
    /\ \A u \in Range(keys) : Held(u) = 1
    /\ (pc = "fill_draw" /\ todo > 0) => Len(taken_out) > 0
    /\ pc = "store" =>
         /\ taken_out = << >>
         /\ Len(filesets[1]) + Len(filesets[2]) + Len(filesets[3]) = Len(keys)
         /\ \A u \in Range(keys) :
              Cardinality({ f \in 1..3 : Count(filesets[f], u) = 1 }) = 1

\* adjust_filesets returns after removing two utterances and filling with them
C3_Witness ==
    /\ pc = "store"
    /\ Cardinality({ a \in DOMAIN hist : hist[a][1] = "fill" }) = 2
    /\ taken_out = << >>

\* the sizes of the returned filesets are the ceiling of total * pct_train,
\* the floor of half the rest, and what remains
ReturnedSizesAreTargets ==
    LET total == Len(keys)
        train == Len(filesets[1])
        validation == Len(filesets[2])
        test == Len(filesets[3])
    IN  /\ train * pct_train.den >= total * pct_train.num
        /\ (train - 1) * pct_train.den < total * pct_train.num
        /\ 2 * validation <= total - train
        /\ total - train < 2 * validation + 2
        /\ test = total - train - validation

ReturnedSizes == << Len(filesets[1]), Len(filesets[2]), Len(filesets[3]) >>

\* C4 (as amended): when adjust_filesets returns, the train size is the
\* ceiling of total * pct_train, the validation size is the floor of half
\* the rest, and the test size is what remains; 10 utterances at 0.7 give
\* 7, 1, 2.
C4_SizesAreTargets ==
    pc = "store" =>
        /\ ReturnedSizesAreTargets
        /\ (Len(keys) = 10 /\ pct_train = Frac(7, 10)) =>
             ReturnedSizes = << 7, 1, 2 >>

\* C4 (as stated): the same, with 10 utterances at 0.7 giving 7, 2, 1.
C4_AsStated ==
    pc = "store" =>
        /\ ReturnedSizesAreTargets
        /\ (Len(keys) = 10 /\ pct_train = Frac(7, 10)) =>
             ReturnedSizes = << 7, 2, 1 >>

\* adjust_filesets returns for 10 utterances and pct_train = 0.7, after
\* moving an utterance
C4_Witness ==
    /\ pc = "store"
    /\ Len(keys) = 10
    /\ pct_train = Frac(7, 10)
    /\ ReturnedSizes = << 7, 1, 2 >>
    /\ Len(hist) > 0

\* pct_train outside the open interval (0, 1), or limit below 3
BadArguments ==
    \/ pct_train.num <= 0
    \/ pct_train.num >= pct_train.den
    \/ limit < 3

\* C5: with pct_train outside (0, 1) or limit < 3 the invocation does nothing
\* but fail with a ValueError: the generator is not seeded and not used, no
\* index and no fileset is built, nothing is moved and no file is written.
C5_BadArgumentsFailFirst ==
    BadArguments =>
        /\ pc \in {"init", "failed"}
        /\ pc = "failed" =>
             error \in {"ValueError: Invalid pct_train value",
                        "ValueError: Minimum limit value is 3."}
        /\ rng = [stream |-> Unseeded, pos |-> 0]
        /\ tape = NoTape
        /\ indexer = NoIndex
        /\ keys = << >>
        /\ filesets_bis = EmptyFilesets
        /\ filesets = << << >>, << >>, << >> >>
        /\ taken_out = << >>
        /\ hist = << >>
        /\ written = << >>
        /\ files = NoFiles

\* an invocation with limit = 2 and a valid pct_train has failed
C5_Witness ==
    /\ pc = "failed"
    /\ limit < 3
    /\ 0 < pct_train.num /\ pct_train.num < pct_train.den
    /\ error = "ValueError: Minimum limit value is 3."

IsPrefix(s, t) == Len(s) <= Len(t) /\ s = SubSeq(t, 1, Len(s))

\* C6: a second invocation with the same seed, corpus and arguments draws
\* the same visiting orders, the same removals and the same insertions as
\* the first, in the same sequence, and ends with the same three lists and
\* the same three files.
C6_SameSeedSameSplit ==
    run = 2 =>
        /\ IsPrefix(hist, first.hist)
        /\ pc = "done" =>
             /\ hist = first.hist
             /\ filesets = first.filesets
             /\ files = first.files

\* the second invocation is done after a refused removal, a removal and an
\* insertion
C6_Witness ==
    /\ run = 2
    /\ pc = "done"
    /\ \E a, b, c \in DOMAIN hist :
         /\ hist[a][1] = "remove" /\ ~hist[a][4]
         /\ hist[b][1] = "remove" /\ hist[b][4]
         /\ hist[c][1] = "fill"

\* the string of the window of three phones starting at place w
WindowAt(labels, w) ==
    labels[w][2] \o "_" \o labels[w + 1][2] \o "_" \o labels[w + 2][2]

\* the utterance has t as one of its width-3, stride-1 windows
HasTriphone(labels, t) ==
    \E w \in 1..(Len(labels) - 2) : t = WindowAt(labels, w)

\* every window of every utterance of the corpus
CorpusWindows ==
    UNION { { WindowAt(corpus[j].labels, w) : w \in 1..(Len(corpus[j].labels) - 2) } :
              j \in DOMAIN corpus }

\* number of utterances of the corpus having the triphone t
UtterancesWith(t) ==
    Cardinality({ j \in DOMAIN corpus : HasTriphone(corpus[j].labels, t) })

\* C7: the index built by build_triphones_indexer has one entry per utterance
\* of the corpus, holding exactly the utterance's own windows of three phones
\* that occur in at least `limit` utterances; u1, u2 = [a, b, c] and
\* u3 = [x, y, z] with limit 2 give {u1: {a_b_c}, u2: {a_b_c}, u3: {}}.
C7_IndexIsOwnFrequentTriphones ==
    pc = "split_permute" =>
        /\ DOMAIN indexer = { corpus[j].name : j \in DOMAIN corpus }
        /\ \A j \in DOMAIN corpus :
             /\ indexer[corpus[j].name] \subseteq CorpusWindows
             /\ \A t \in CorpusWindows :
                  t \in indexer[corpus[j].name] <=>
                      /\ HasTriphone(corpus[j].labels, t)
                      /\ UtterancesWith(t) >= limit
        /\ \A t \in IndexTriphones : UtterancesWith(t) >= limit
        /\ (corpus = Corpus(<< ABC, ABC, XYZ >>) /\ limit = 2) =>
             indexer = ("u1" :> {"a_b_c"}) @@ ("u2" :> {"a_b_c"}) @@ ("u3" :> {})

\* the index of the corpus u1, u2 = [a, b, c], u3 = [x, y, z] is built with
\* limit 2
C7_Witness ==
    /\ pc = "split_permute"
    /\ corpus = Corpus(<< ABC, ABC, XYZ >>)
    /\ limit = 2
    /\ indexer["u1"] = {"a_b_c"}
    /\ indexer["u3"] = {}

\* the index is built and gives no triphone to any utterance
EmptyIndex ==
    /\ pc \notin {"init", "indexing", "failed"}
    /\ \A n \in DOMAIN indexer : indexer[n] = {}

\* C8: a corpus whose utterances all have fewer than 3 phones gets an index
\* of empty sets; with an index of empty sets build_initial_split draws one
\* visiting order, prints no diagnostic, and finds the three covered sets
\* equal at the end of that pass, whatever the order.
C8_EmptyIndexFirstAttempt ==
    /\ ( /\ pc \notin {"init", "indexing", "failed"}
         /\ \A j \in DOMAIN corpus : Len(corpus[j].labels) < 3 ) => EmptyIndex
    /\ EmptyIndex =>
         /\ diag = 0
         /\ Cardinality({ a \in DOMAIN hist : hist[a][1] = "permutation" }) <= 1
         /\ (pc = "split_assign" /\ pos = Len(order)) =>
              /\ filesets_bis[1].phones = filesets_bis[2].phones
              /\ filesets_bis[2].phones = filesets_bis[3].phones
         /\ pc = "split_permute" => hist = << >>

\* build_initial_split has returned for a corpus of 2-phone utterances
C8_Witness ==
    /\ pc = "adjust_sizes"
    /\ Len(corpus) = 3
    /\ \A j \in DOMAIN corpus : Len(corpus[j].labels) = 2
    /\ limit = 3
    /\ EmptyIndex
    /\ diag = 0

\* number of the utterance's triphones the fileset f does not cover yet
Gain(f, u) == Cardinality(indexer[u] \ filesets_bis[f].phones)

\* places of the three lists of the pass holding u
Assigned(fsets, u) ==
    Count(fsets[1].utt, u) + Count(fsets[2].utt, u) + Count(fsets[3].utt, u)

\* C9: a step of a pass appends the visited utterance to the fileset with
\* the largest gain, the lowest-indexed one on a tie, adds its triphones to
\* that fileset's covered set, and leaves the two other filesets as they
\* were; in a pass the order holds every utterance once, and the utterances
\* visited so far, and no others, are assigned, each once.
C9_AssignToBestOnly ==
    [][ /\ (pc = "split_assign" /\ pos' = pos + 1) =>
             \E c \in 1..3 :
                /\ \A f \in 1..3 : Gain(f, order[pos + 1]) <= Gain(c, order[pos + 1])
                /\ \A f \in 1..3 :
                     f < c => Gain(f, order[pos + 1]) < Gain(c, order[pos + 1])
                /\ filesets_bis'[c].utt = Append(filesets_bis[c].utt, order[pos + 1])
                /\ filesets_bis'[c].phones =
                     filesets_bis[c].phones \cup indexer[order[pos + 1]]
                /\ \A f \in 1..3 : f # c => filesets_bis'[f] = filesets_bis[f]
        /\ pc' = "split_assign" =>
             /\ \A u \in Range(keys') : Count(order', u) = 1
             /\ Len(order') = Len(keys')
             /\ \A j \in DOMAIN order' :
                  Assigned(filesets_bis', order'[j]) = IF j <= pos' THEN 1 ELSE 0
      ]_vars

\* the second utterance of a pass, with as much to give to the empty second
\* and third filesets and less to the first, has gone to the second
C9_Witness ==
    /\ pc = "split_assign"
    /\ pos = 2
    /\ filesets_bis[1].utt = << order[1] >>
    /\ filesets_bis[2].utt = << order[2] >>
    /\ filesets_bis[3].utt = << >>
    /\ indexer[order[2]] \cap indexer[order[1]] # {}
    /\ filesets_bis[2].phones = indexer[order[2]]

\* the three covered sets of the pass are pairwise identical
Identical ==
    \A f, g \in 1..3 : filesets_bis[f].phones = filesets_bis[g].phones

\* C10: build_initial_split leaves the for loop only when every utterance is
\* assigned; it then either prints one diagnostic and calls itself, when the
\* covered sets are not identical, or returns the lists of this pass, when
\* they are; a call starts from three empty filesets and draws a new order,
\* so that what is returned holds every utterance once.
C10_RestartFromScratch ==
    [][ /\ (pc = "split_assign" /\ pc' # "split_assign") =>
             pos = Len(order) /\ Len(order) = Len(keys)
        /\ (pc = "split_assign" /\ pc' = "split_permute") =>
             ~Identical /\ diag' = diag + 1 /\ filesets' = filesets
        /\ diag' # diag => (pc = "split_assign" /\ pc' = "split_permute")
        /\ (pc = "split_permute" /\ pc' = "split_assign") =>
             /\ \A f \in 1..3 :
                  filesets_bis'[f].utt = << >> /\ filesets_bis'[f].phones = {}
             /\ pos' = 0
             /\ rng'.pos = rng.pos + 1
             /\ hist' = Append(hist, << "permutation", order' >>)
             /\ diag' = diag
        /\ (pc = "split_assign" /\ pc' = "adjust_sizes") =>
             /\ Identical
             /\ diag' = diag
             /\ \A f \in 1..3 : filesets'[f] = filesets_bis[f].utt
             /\ \A u \in Range(keys) :
                  Count(filesets'[1], u) + Count(filesets'[2], u)
                    + Count(filesets'[3], u) = 1
             /\ Len(filesets'[1]) + Len(filesets'[2]) + Len(filesets'[3])
                  = Len(keys)
      ]_vars

\* build_initial_split has returned from its second pass
C10_Witness ==
    /\ pc = "adjust_sizes"
    /\ diag = 1
    /\ Cardinality({ a \in DOMAIN hist : hist[a][1] = "permutation" }) = 2
    /\ Len(filesets[1]) + Len(filesets[2]) + Len(filesets[3]) = Len(keys)

\* number of utterances of the index carrying the triphone t
Carriers(t) == Cardinality({ n \in DOMAIN indexer : t \in indexer[n] })

\* an index every pass of which fails the coverage check: a triphone has
\* fewer than three carriers, or the index is the one of abca, bcab, cabc,
\* abcab, whose three triphones never all reach the three filesets
Hopeless ==
    \/ \E t \in IndexTriphones : Carriers(t) < 3
    \/ indexer = ("u1" :> {TA, TB}) @@ ("u2" :> {TB, TC})
                   @@ ("u3" :> {TC, TA}) @@ ("u4" :> {TA, TB, TC})

\* C11 (as amended): with such an index every pass fails the coverage check
\* and build_initial_split never returns; the restarts are nested calls, at
\* most as many as the interpreter's stack admits, and when it admits no
\* more the invocation ends with a RecursionError, the only error raised.
C11_RestartsUntilRecursionError ==
    Hopeless =>
        /\ pc # "adjust_sizes"
        /\ filesets = << << >>, << >>, << >> >>
        /\ (pc = "split_assign" /\ pos = Len(order)) => ~Identical
        /\ diag <= recursion_limit
        /\ error \in {"none", "RecursionError: maximum recursion depth exceeded"}
        /\ (pc = "failed") <=> (error # "none")
        /\ pc = "failed" => diag = recursion_limit

\* C11 (as stated): with such an index build_initial_split never returns and
\* no error is raised.
C11_AsStated ==
    Hopeless => (pc # "adjust_sizes" /\ pc # "failed" /\ error = "none")

\* the second nested call was the last the stack admitted, for the index of
\* abca, bcab, cabc, abcab
C11_Witness ==
    /\ Hopeless
    /\ \A t \in IndexTriphones : Carriers(t) = 3
    /\ recursion_limit = 2
    /\ diag = 2
    /\ pc = "failed"
    /\ error = "RecursionError: maximum recursion depth exceeded"

\* the utterance u of the fileset f has a triphone that no other utterance
\* of f carries
SoleCarrier(f, u) ==
    \E t \in indexer[u] :
        \A j \in DOMAIN filesets[f] :
            filesets[f][j] # u => t \notin indexer[filesets[f][j]]

\* the while loop is at a fileset still larger than its target, and every
\* utterance left in it is a sole carrier
StuckLoop ==
    /\ pc = "remove_draw"
    /\ k \in 1..3
    /\ Len(filesets[k]) > n_obs[k]
    /\ \A j \in DOMAIN filesets[k] : SoleCarrier(k, filesets[k][j])

\* C12: once the while loop is at an oversized fileset all of whose remaining
\* utterances are sole carriers, it stays there: another draw is always
\* possible, every step is a draw of an utterance of that fileset that is
\* not moved, no fileset, pool or file changes, no error is raised, and
\* neither the fill phase nor the writing is reached.
C12_RemovalLoopNeverEnds ==
    [][ StuckLoop =>
          /\ StuckLoop'
          /\ (draws < MaxDraws => ENABLED RemoveDraw)
          /\ pc' = "remove_draw"
          /\ error' = "none"
          /\ << filesets, moved, taken_out, n_obs, k, n_moves >>'
               = << filesets, moved, taken_out, n_obs, k, n_moves >>
          /\ << files, written >>' = << files, written >>
          /\ rng'.pos = rng.pos + 1
          /\ \E j \in DOMAIN filesets[k] :
               hist' = Append(hist, << "remove", k, filesets[k][j], FALSE >>)
      ]_vars

\* three utterances carrying one triphone, one per fileset, pct_train = 0.7,
\* targets 3, 0, 0: the loop has drawn the utterance of the validation
\* fileset three times
C12_Witness ==
    /\ StuckLoop
    /\ Len(keys) = 3
    /\ \A f \in 1..3 : Len(filesets[f]) = 1
    /\ \A n \in DOMAIN indexer : indexer[n] = {TA}
    /\ pct_train = Frac(7, 10)
    /\ n_obs = << 3, 0, 0 >>
    /\ k = 2
    /\ draws = 3

\* the phase of a position of the invocation, by its place in the order
\* INIT, INDEXING, SPLITTING, REBALANCING, WRITING, DONE; 0 once it has failed
PhaseOf(p) ==
    CASE p = "init" -> 1
      [] p = "indexing" -> 2
      [] p \in {"split_permute", "split_assign"} -> 3
      [] p \in {"adjust_sizes", "remove", "remove_draw", "fill", "fill_draw"} -> 4
      [] p = "store" -> 5
      [] p = "done" -> 6
      [] OTHER -> 0

\* the files of the three filesets, in the order they are written
FileNames == << "train.txt", "validation.txt", "test.txt" >>

\* C13: within one invocation with valid arguments every step stays in its
\* phase or enters the next one of INIT, INDEXING, SPLITTING, REBALANCING,
\* WRITING, DONE; a new pass of the splitter starts only after a pass whose
\* coverage check failed; the index is empty before INDEXING, is built by the
\* one step of INDEXING and never changes afterwards; REBALANCING is entered
\* only with the lists of a pass whose three covered sets are identical and
\* hold every triphone of the index; files are written only in WRITING, when
\* the filesets no longer change, one file per fileset in the order train,
\* validation, test, each holding its fileset's names joined by newlines.
C13_PhasesInOrder ==
    [][ (~BadArguments /\ run' = run) =>
          /\ (pc # "failed" /\ pc' # "failed") =>
                 PhaseOf(pc') \in {PhaseOf(pc), PhaseOf(pc) + 1}
          /\ (pc = "split_assign" /\ pc' = "split_permute") =>
                 /\ pos = Len(order)
                 /\ ~Identical
                 /\ diag' = diag + 1
          /\ PhaseOf(pc) = 1 => DOMAIN indexer = {}
          /\ PhaseOf(pc) = 2 =>
                 /\ pc' = "split_permute"
                 /\ DOMAIN indexer' = Range(keys')
                 /\ diag = 0
          /\ PhaseOf(pc) # 2 => (indexer' = indexer /\ keys' = keys)
          /\ (PhaseOf(pc) = 3 /\ PhaseOf(pc') = 4) =>
                 /\ pos = Len(order)
                 /\ Identical
                 /\ \A f \in 1..3 :
                      /\ filesets'[f] = filesets_bis[f].utt
                      /\ UNION { indexer[filesets'[f][j]] :
                                   j \in DOMAIN filesets'[f] } = IndexTriphones
          /\ PhaseOf(pc) # 5 => (files' = files /\ written' = written)
          /\ PhaseOf(pc) >= 5 => filesets' = filesets
          /\ (pc = "store" /\ pc' = "store") =>
                 \E n \in 1..3 :
                     /\ n = Len(written) + 1
                     /\ written' = Append(written, FileNames[n])
                     /\ FileNames[n] \in DOMAIN files'
                     /\ files'[FileNames[n]] = Join("\n", filesets[n])
                     /\ \A q \in DOMAIN files' \ {FileNames[n]} :
                          q \in DOMAIN files /\ files'[q] = files[q]
          /\ pc' = "done" =>
                 /\ written' = FileNames
                 /\ \A n \in 1..3 :
                      files'[FileNames[n]] = Join("\n", filesets'[n])
      ]_vars

\* an invocation that restarted the splitter once and wrote its three files,
\* the train file holding more than one name
C13_Witness ==
    /\ ~BadArguments
    /\ pc = "done"
    /\ diag = 1
    /\ written = FileNames
    /\ Len(filesets[1]) >= 2
    /\ \A n \in 1..3 : files[FileNames[n]] = Join("\n", filesets[n])

====
